---------------------------- MODULE Spec2Model ----------------------------
(***************************************************************************)
(* The function grammar rules of the miniplc parser                        *)
(* (src/src/parser/function.rs): parameter lists, function declarations,   *)
(* call arguments, function calls and return statements, together with the *)
(* scope stack (Parser::context) they push to, pop from and look up in.    *)
(*                                                                         *)
(* The parser is a recursive-descent parser; its Rust call stack is the    *)
(* variable `stack` (one frame per active parse_* call, with that call's   *)
(* locals and its position `pc`).  A call returns by popping its frame and *)
(* leaving its Result in `result`.  The token stream is delivered lazily:  *)
(* `tokens` holds the tokens read so far and advance() appends the next    *)
(* one, chosen from a finite alphabet, so every stream over that alphabet  *)
(* (up to the bounds) is explored.                                         *)
(***************************************************************************)
EXTENDS Integers, Sequences, FiniteSets, TLC

VARIABLES
    tokens,         \* the tokens delivered so far; a token's position is its index
    pos,            \* index in tokens of Parser::current
    context,        \* Parser::context, the scope stack (last element = top)
    stack,          \* the call stack of parse_* frames (last element = running)
    result,         \* the Result returned by the frame that returned last
    entry,          \* the entry point the driver called
    entry_context   \* the scope stack as it was when the driver called

vars == <<tokens, pos, context, stack, result, entry, entry_context>>

----------------------------------------------------------------------------
(* Bounds of the exploration *)

\* tokens in one stream, the end-of-input token not counted
MaxLen == 17
\* tokens delivered inside the argument list of a call the driver asked for,
\* before end-of-input
MaxCallLen == 4
\* the same for a call inside a function body
MaxBodyCallLen == 2
\* parameters in one parameter list
MaxParams == 2
\* statements in one block
MaxStmts == 1
\* nesting depth of function declarations
MaxDepth == 1
\* times the call-argument loop may call advance() at end-of-input
MaxSpin == 2
\* tokens in one stream of a block the driver asked for, the end-of-input
\* token not counted
MaxBlockLen == 28
\* statements in the block the driver asked for (sibling declarations)
MaxSiblings == 2
\* nesting depth of function declarations in that block
MaxBlockDepth == 2
\* parameters in one parameter list of that block
MaxBlockParams == 1

----------------------------------------------------------------------------
(* Tokens (core::token, not in src/: kind, lexeme, position) *)

Names == {"f", "x", "y"}

\* the names the streams give to functions
FunctionNames == {"f"}

TypeKinds == {"Int", "String"}

Token(k, l, p) == [kind |-> k, lexeme |-> l, position |-> p]

\* every token the lexer can deliver at position p
Alphabet(p) ==
    {Token("Identifier", n, p) : n \in Names}
    \cup {Token(k, k, p) : k \in {"Var", "Colon", "Comma", "LeftParen", "RightParen",
                                  "Semicolon", "Begin", "End", "Int", "String",
                                  "Number", "Return", "Function", "Eof"}}

\* the tokens delivered inside a call-argument list: one of each case the
\* argument loop tells apart
CallAlphabet(p) ==
    {Token("Identifier", n, p) : n \in Names}
    \cup {Token(k, k, p) : k \in {"Comma", "RightParen", "Number", "Eof"}}

current == tokens[pos]

Top == stack[Len(stack)]

Depth == Cardinality({i \in 1..Len(stack) : stack[i].fn = "parse_function"})

\* the names the streams of a block give to parameters and arguments
BlockNames == {"x", "y"}

\* the tokens delivered in the streams of a block the driver asked for; an
\* identifier is a function's name where a statement or a declaration's name
\* is expected, a variable's name elsewhere
BlockAlphabet(p, names) ==
    {Token("Identifier", n, p) : n \in names}
    \cup {Token(k, k, p) : k \in {"Var", "Colon", "Comma", "LeftParen", "RightParen",
                                  "Semicolon", "Begin", "End", "Int",
                                  "Return", "Function", "Eof"}}

\* the tokens delivered inside a call-argument list of such a stream
BlockCallAlphabet(p) ==
    {Token("Identifier", n, p) : n \in BlockNames}
    \cup {Token(k, k, p) : k \in {"Comma", "RightParen", "Eof"}}

\* the kinds of token the grammar of declarations and statements has at the
\* place where frame f stands (a right parenthesis also where a parameter
\* starts: the empty list), and end-of-input
Grammatical(f) ==
    {"Eof"} \cup
    CASE f.pc = "name" -> {"Identifier"}
      [] f.pc = "lparen" -> {"LeftParen"}
      [] f.pc = "param" -> {"Var", "Identifier", "RightParen"}
      [] f.pc = "id" -> {"Identifier"}
      [] f.pc = "colon" -> {"Colon"}
      [] f.pc = "type" -> TypeKinds
      [] f.pc = "term" -> {"Comma", "RightParen"}
      [] f.pc = "semicolon" -> {"Semicolon"}
      [] f.pc = "begin" -> {"Begin"}
      [] f.pc = "stmt" -> {"Identifier", "Return", "Function", "End"}
      [] f.pc = "call_ret" -> {"Semicolon"}
      [] f.pc = "start" -> {"Semicolon", "Identifier"}
      [] f.pc = "next" -> {"Semicolon"}
      [] OTHER -> {}

\* The streams explored when the driver asked for a block: sibling and nested
\* declarations, calls and return statements that follow the grammar until
\* the stream ends; inside an argument list, every token of its alphabet.
BlockLexer ==
    LET p == pos + 1
        names == IF Top.pc \in {"name", "stmt"} THEN FunctionNames ELSE BlockNames
        grammatical == {t \in BlockAlphabet(p, names) : t.kind \in Grammatical(Top)}
    IN
    IF p > MaxBlockLen THEN {Token("Eof", "Eof", p)}
    ELSE IF Top.fn = "parse_call_parameters"
         THEN IF Top.n >= MaxBodyCallLen
              THEN {Token("Eof", "Eof", p)}
              ELSE BlockCallAlphabet(p)
    ELSE IF Top.fn = "parse_parameters" /\ Top.pc = "term" /\
            Len(Top.params) + 1 >= MaxBlockParams
         THEN {t \in grammatical : t.kind # "Comma"}
    ELSE IF Top.fn = "parse_block" /\ Top.pc = "stmt" /\
            Len(Top.stmts) >= (IF Len(stack) = 1 THEN MaxSiblings ELSE MaxStmts)
         THEN {t \in grammatical : t.kind \notin {"Identifier", "Return", "Function"}}
    ELSE IF Top.fn = "parse_block" /\ Top.pc = "stmt" /\ Depth >= MaxBlockDepth
         THEN {t \in grammatical : t.kind # "Function"}
    ELSE grammatical

\* The streams explored: the lexer's choice for the next token, given where
\* the parser stands.
Lexer ==
    LET p == pos + 1 IN
    IF entry = "block" THEN BlockLexer
    ELSE IF p > MaxLen THEN {Token("Eof", "Eof", p)}
    ELSE IF Top.fn = "parse_call_parameters"
         THEN IF Top.n >= (IF Depth = 0 THEN MaxCallLen ELSE MaxBodyCallLen)
              THEN {Token("Eof", "Eof", p)}
              ELSE CallAlphabet(p)
    ELSE IF Top.fn = "parse_function" /\ Top.pc = "name"
         THEN {t \in Alphabet(p) : t.kind = "Identifier" => t.lexeme \in FunctionNames}
    ELSE IF Top.fn = "parse_parameters" /\ Top.pc = "term" /\ Len(Top.params) + 1 >= MaxParams
         THEN {t \in Alphabet(p) : t.kind # "Comma"}
    ELSE IF Top.fn = "parse_block" /\ Top.pc = "stmt" /\ Len(Top.stmts) >= MaxStmts
         THEN {t \in Alphabet(p) : t.kind \notin {"Identifier", "Return", "Function"}}
    ELSE IF Top.fn = "parse_block" /\ Top.pc = "stmt" /\ Depth >= MaxDepth
         THEN {t \in Alphabet(p) : t.kind # "Function"}
    ELSE Alphabet(p)

\* Parser::advance: the tokens it can make current.  A token already read
\* (after go_back) is read again; at end-of-input the cursor stays on it.
Advance ==
    IF pos < Len(tokens) THEN {tokens[pos + 1]}
    ELSE IF current.kind = "Eof" THEN {current}
    ELSE Lexer

\* the cursor after advance() has returned t
Advanced(t) ==
    /\ tokens' = IF t.position > Len(tokens) THEN Append(tokens, t) ELSE tokens
    /\ pos' = t.position

\* Parser::matches: the current token is of this kind
matches(k) == current.kind = k

----------------------------------------------------------------------------
(* Results and diagnostics *)

Ok(v) == [ok |-> TRUE, val |-> v]

Err(es) == [ok |-> FALSE, val |-> es]

None == [ok |-> FALSE, val |-> <<>>]

\* Parser::error_at_current: a SyntaxError with this message at token t
error_at_current(t, msg, arg) == [msg |-> msg, arg |-> arg, position |-> t.position]

\* Parser::unexpected_token_err: the one-element list "expected ..., found ..." at token t
unexpected_token_err(t, expected, found) ==
    <<error_at_current(t, "expected", <<expected, found>>)>>

----------------------------------------------------------------------------
(* Symbols, symbol tables and the scope stack *)

Symbol(n, st, rt, p) == [name |-> n, s_type |-> st, r_type |-> rt, position |-> p]

\* SymbolTable::get: the first symbol of that name, by value
get(table, name) ==
    LET hits == {i \in 1..Len(table) : table[i].name = name} IN
    IF hits = {} THEN None
    ELSE Ok(table[CHOOSE i \in hits : \A j \in hits : i <= j])

\* the scope stacks the driver may call a call or return parse with;
\* declaration positions 0 lie before the stream
InitContexts ==
    { << <<Symbol("x", "Param", "Int", 0)>> >>,
      << <<Symbol("y", "VarParam", "String", 0)>>, <<Symbol("x", "Param", "Int", 0)>> >>,
      << <<Symbol("x", "Param", "Int", 0), Symbol("y", "VarParam", "String", 0)>> >> }

----------------------------------------------------------------------------
(* The call stack *)

SetTop(f) == [stack EXCEPT ![Len(stack)] = f]

Pop == SubSeq(stack, 1, Len(stack) - 1)

\* the running frame returns r to its caller
Return(r) == stack' = Pop /\ result' = r

\* the running frame moves to pc l and calls a new frame
Call(l, frame) == stack' = Append(SetTop([Top EXCEPT !.pc = l]), frame) /\ UNCHANGED result

\* the running frame becomes f
Goto(f) == stack' = SetTop(f) /\ UNCHANGED result

Running(fn, l) == stack # <<>> /\ Top.fn = fn /\ Top.pc = l

Done == stack = <<>>

----------------------------------------------------------------------------
(* parse_call_parameters, function.rs 111-164 *)

\* lines 113-114; start (where the list begins), n and spins are bookkeeping
CallParametersFrame(start) ==
    [fn |-> "parse_call_parameters", pc |-> "arg", params |-> <<>>, errors |-> <<>>,
     start |-> start, n |-> 0, spins |-> 0]

\* ActiveScopeGet falling through to the enclosing scopes
ActiveScopeGet_AnyScope(name) ==
    LET hits == {d \in 1..Len(context) : get(context[d], name).ok} IN
    IF hits = {} THEN None
    ELSE get(context[CHOOSE d \in hits : \A e \in hits : e <= d], name)

\* line 121: self.context.last().unwrap().get(lexeme)
ActiveScopeGet(name) == get(context[Len(context)], name)

\* ScopeAfterLookup moving the symbol out of the table
ScopeAfterLookup_Taken(ctx, name) ==
    [ctx EXCEPT ![Len(ctx)] = SelectSeq(@, LAMBDA sym : sym.name # name)]

\* line 121: last() and get() only read the scope stack; the symbol comes
\* back by value
ScopeAfterLookup(ctx, name) == ctx

\* ResolvedArgument building the argument from the token at the call site
ResolvedArgument_FromToken(p, t) == Symbol(t.lexeme, p.s_type, p.r_type, t.position)

\* lines 122-124: the symbol found is pushed as it is, by value
ResolvedArgument(p, t) == p

\* lines 145-151: the identifier is not in the active scope
UndeclaredVariable(errors, t) ==
    Append(errors, error_at_current(t, "use of undeclared variable", t.lexeme))

\* UnexpectedArgument skipping the token without a diagnostic
UnexpectedArgument_Skipped(errors, t) == errors

\* UnexpectedArgument letting a right parenthesis pass
UnexpectedArgument_EmptyList(errors, t) ==
    IF t.kind = "RightParen" THEN errors
    ELSE Append(errors, error_at_current(t, "Unexpected token", t.kind))

\* lines 155-156: a token that is no identifier where an argument is expected
UnexpectedArgument(errors, t) ==
    Append(errors, error_at_current(t, "Unexpected token", t.kind))

\* lines 136-141: a token that is no comma, right parenthesis or end-of-input
\* after a resolved argument
UnexpectedSeparator(errors, t) ==
    Append(errors, error_at_current(t, "Unexpected token", t.kind))

\* EofInCall breaking out of the loop without a diagnostic
EofInCall_Silent(errors, t) == errors

\* lines 130-134: end-of-input after a resolved argument
EofInCall(errors, t) ==
    Append(errors, error_at_current(t, "Found EOF wile parsing call parameters, missing a )?", ""))

\* CallParametersResult giving the arguments resolved so far when there are any
CallParametersResult_Partial(params, errors) ==
    IF params # <<>> THEN Ok(params) ELSE Err(errors)

\* lines 159-163: the table if no diagnostic was recorded, else the diagnostics
CallParametersResult(params, errors) ==
    IF errors = <<>> THEN Ok(params) ELSE Err(errors)

\* the frame's counters after advance() returned t
Counted(f, t) ==
    [f EXCEPT !.n = IF t.position > Len(tokens) THEN @ + 1 ELSE @,
              !.spins = IF current.kind = "Eof" THEN @ + 1 ELSE @]

\* lines 117-124 and 144-157: one turn of the loop up to the argument
parse_call_parameters_arg ==
    /\ Running("parse_call_parameters", "arg")
    /\ current.kind = "Eof" => Top.spins < MaxSpin
    /\ \E t \in Advance :
        /\ Advanced(t)
        /\ LET f == Counted(Top, t) IN
           IF t.kind = "Identifier"
           THEN LET p == ActiveScopeGet(t.lexeme) IN
                IF p.ok
                THEN Goto([f EXCEPT !.params = Append(@, ResolvedArgument(p.val, t)),
                                    !.pc = "sep"])
                ELSE Goto([f EXCEPT !.errors = UndeclaredVariable(@, t)])
           ELSE Goto([f EXCEPT !.errors = UnexpectedArgument(@, t)])
        /\ context' = IF t.kind = "Identifier" THEN ScopeAfterLookup(context, t.lexeme)
                      ELSE context
    /\ UNCHANGED <<entry, entry_context>>

\* lines 125-142: the token after a resolved argument
parse_call_parameters_sep ==
    /\ Running("parse_call_parameters", "sep")
    /\ \E t \in Advance :
        /\ Advanced(t)
        /\ LET f == Counted(Top, t) IN
           CASE t.kind = "Comma" -> Goto([f EXCEPT !.pc = "arg"])
             [] t.kind = "RightParen" -> Return(CallParametersResult(f.params, f.errors))
             [] t.kind = "Eof" -> Return(CallParametersResult(f.params, EofInCall(f.errors, t)))
             [] OTHER -> Goto([f EXCEPT !.errors = UnexpectedSeparator(@, t), !.pc = "arg"])
    /\ UNCHANGED <<context, entry, entry_context>>

----------------------------------------------------------------------------
(* parse_function_call, function.rs 166-182 *)

\* line 168: the target is the token that is current on entry
FunctionCallFrame(t) == [fn |-> "parse_function_call", pc |-> "lparen", f_name |-> t]

\* lines 175-179
FunctionCallStmt(f_name, params) ==
    [node |-> "FunctionCallStmt", position |-> f_name.position, args |-> params,
     target |-> f_name.lexeme]

\* CallResult looking the target up in the active scope first
CallResult_TargetLookup(f_name, params, t) ==
    IF ~ActiveScopeGet(f_name.lexeme).ok
    THEN Err(<<error_at_current(f_name, "use of undeclared variable", f_name.lexeme)>>)
    ELSE IF t.kind = "RightParen" THEN Ok(FunctionCallStmt(f_name, params))
    ELSE Err(unexpected_token_err(t, "RightParen", t.kind))

\* lines 172-180: the check for the right parenthesis and the node; the
\* target is used as it was captured at line 168
CallResult(f_name, params, t) ==
    IF t.kind = "RightParen" THEN Ok(FunctionCallStmt(f_name, params))
    ELSE Err(unexpected_token_err(t, "RightParen", t.kind))

\* lines 169-170: the left parenthesis, then the arguments
parse_function_call_lparen ==
    /\ Running("parse_function_call", "lparen")
    /\ \E t \in Advance :
        /\ Advanced(t)
        /\ IF t.kind = "LeftParen"
           THEN Call("params_ret", CallParametersFrame(t.position))
           ELSE Return(Err(unexpected_token_err(t, "LeftParen", t.kind)))
    /\ UNCHANGED <<context, entry, entry_context>>

\* lines 170-180: the arguments' result, then the right parenthesis
parse_function_call_params_ret ==
    /\ Running("parse_function_call", "params_ret")
    /\ IF ~result.ok
       THEN Return(result)
       ELSE Return(CallResult(Top.f_name, result.val, current))
    /\ UNCHANGED <<tokens, pos, context, entry, entry_context>>

----------------------------------------------------------------------------
(* Parser::parse_type (the type parser, not in src/): one type token *)

parse_type(t) ==
    IF t.kind \in TypeKinds THEN Ok(t.kind) ELSE Err(unexpected_token_err(t, "Type", t.kind))

----------------------------------------------------------------------------
(* parse_single_param and parse_parameters, function.rs 17-66.             *)
(* parse_single_param runs in the frame of parse_parameters: its error     *)
(* returns pass through the ? of line 59.                                  *)

\* line 57
ParametersFrame(start) ==
    [fn |-> "parse_parameters", pc |-> "param", params |-> <<>>, start |-> start,
     id |-> None, s_type |-> "Param", ttype |-> "Int"]

\* ParamSymbol with the value-parameter arm copied into the reference arm
ParamSymbol_ValueKind(id, s_type, ttype) == Symbol(id.lexeme, "Param", ttype, id.position)

\* lines 25-30 and 40-45: the symbol of one parameter
ParamSymbol(id, s_type, ttype) == Symbol(id.lexeme, s_type, ttype, id.position)

\* ParamTerminator taking a semicolon as well
ParamTerminator_Lenient(k) == k \in {"Comma", "RightParen", "Semicolon"}

\* lines 25 and 40: what may end a parameter
ParamTerminator(k) == k \in {"Comma", "RightParen"}

\* lines 19, 35-36 and 50: the first token of a parameter
parse_single_param_first ==
    /\ Running("parse_parameters", "param")
    /\ \E t \in Advance :
        /\ Advanced(t)
        /\ CASE t.kind = "Var" -> Goto([Top EXCEPT !.pc = "id"])
             [] t.kind = "Identifier" ->
                    Goto([Top EXCEPT !.id = t, !.s_type = "Param", !.pc = "colon"])
             [] OTHER -> Return(Err(unexpected_token_err(t, "Identifier", t.kind)))
    /\ UNCHANGED <<context, entry, entry_context>>

\* lines 20-21: the identifier after the reference marker
parse_single_param_id ==
    /\ Running("parse_parameters", "id")
    /\ \E t \in Advance :
        /\ Advanced(t)
        /\ IF t.kind = "Identifier"
           THEN Goto([Top EXCEPT !.id = t, !.s_type = "VarParam", !.pc = "colon"])
           ELSE Return(Err(unexpected_token_err(t, "Identifier", t.kind)))
    /\ UNCHANGED <<context, entry, entry_context>>

\* lines 22 and 37: the colon
parse_single_param_colon ==
    /\ Running("parse_parameters", "colon")
    /\ \E t \in Advance :
        /\ Advanced(t)
        /\ IF t.kind = "Colon"
           THEN Goto([Top EXCEPT !.pc = "type"])
           ELSE Return(Err(unexpected_token_err(t, "Colon", t.kind)))
    /\ UNCHANGED <<context, entry, entry_context>>

\* lines 23 and 38: the type
parse_single_param_type ==
    /\ Running("parse_parameters", "type")
    /\ \E t \in Advance :
        /\ Advanced(t)
        /\ LET ty == parse_type(t) IN
           IF ty.ok
           THEN Goto([Top EXCEPT !.ttype = ty.val, !.pc = "term"])
           ELSE Return(ty)
    /\ UNCHANGED <<context, entry, entry_context>>

\* lines 24-32 and 39-47, then lines 60-65 of parse_parameters: the token that
\* ends the parameter, the push and the test for the end of the list
parse_single_param_term ==
    /\ Running("parse_parameters", "term")
    /\ \E t \in Advance :
        /\ Advanced(t)
        /\ IF ParamTerminator(t.kind)
           THEN LET params == Append(Top.params, ParamSymbol(Top.id, Top.s_type, Top.ttype)) IN
                IF t.kind = "RightParen"
                THEN Return(Ok(params))
                ELSE Goto([Top EXCEPT !.params = params, !.pc = "param"])
           ELSE Return(Err(unexpected_token_err(t, "RightParen", t.kind)))
    /\ UNCHANGED <<context, entry, entry_context>>

----------------------------------------------------------------------------
(* parse_function, function.rs 70-109 *)

\* entry_ctx (the scope stack on entry) and start are bookkeeping
FunctionFrame(start) ==
    [fn |-> "parse_function", pc |-> "name", start |-> start, entry_ctx |-> context,
     id |-> None, args |-> <<>>, r_type |-> "Int"]

\* lines 89-94: the function's own symbol
FunctionSymbol(id, r_type) == Symbol(id.lexeme, "Function", r_type, id.position)

\* BodyScope with the function's own symbol declared before its body
BodyScope_WithSelf(f) == Append(f.args, FunctionSymbol(f.id, f.r_type))

\* line 85: the table pushed for the body is a copy of the parameter table
BodyScope(f) == f.args

\* line 85: the parameter table becomes the active scope
ScopeForBody(ctx, args) == Append(ctx, args)

\* ScopeAfterBody without the push of line 95
ScopeAfterBody_Popped(ctx, id, r_type) == SubSeq(ctx, 1, Len(ctx) - 1)

\* lines 88-95: the top table is popped, gets the function's symbol and is
\* pushed back
ScopeAfterBody(ctx, id, r_type) ==
    Append(SubSeq(ctx, 1, Len(ctx) - 1), Append(ctx[Len(ctx)], FunctionSymbol(id, r_type)))

\* ScopeAtBegin pushing before the body-open marker is checked
ScopeAtBegin_PushFirst(ctx, args, k) == ScopeForBody(ctx, args)

\* lines 84-85: the push is in the arm of advance_with_expected!(Kind::Begin)
\* that runs when the token read is of that kind
ScopeAtBegin(ctx, args, k) == IF k = "Begin" THEN ScopeForBody(ctx, args) ELSE ctx

\* line 87: the scope stack when the body parser returned an error
ScopeAfterBodyError(ctx) == ctx

\* lines 96-102
FunctionDecl(id, position, args, block, r_type) ==
    [node |-> "FunctionDecl", name |-> id.lexeme, position |-> position, args |-> args,
     block |-> block, r_type |-> r_type]

\* lines 72-73: the function's name
parse_function_name ==
    /\ Running("parse_function", "name")
    /\ \E t \in Advance :
        /\ Advanced(t)
        /\ IF t.kind = "Identifier"
           THEN Goto([Top EXCEPT !.id = t, !.pc = "lparen"])
           ELSE Return(Err(unexpected_token_err(t, "Identifier", t.kind)))
    /\ UNCHANGED <<context, entry, entry_context>>

\* lines 74-75: the left parenthesis, then the parameters
parse_function_lparen ==
    /\ Running("parse_function", "lparen")
    /\ \E t \in Advance :
        /\ Advanced(t)
        /\ IF t.kind = "LeftParen"
           THEN Call("params_ret", ParametersFrame(t.position))
           ELSE Return(Err(unexpected_token_err(t, "LeftParen", t.kind)))
    /\ UNCHANGED <<context, entry, entry_context>>

\* lines 75-78: the parameters' result, then the right parenthesis
parse_function_params_ret ==
    /\ Running("parse_function", "params_ret")
    /\ IF ~result.ok
       THEN Return(result)
       ELSE IF matches("RightParen")
            THEN Goto([Top EXCEPT !.args = result.val, !.pc = "colon"])
            ELSE Return(Err(unexpected_token_err(current, "RightParen", current.kind)))
    /\ UNCHANGED <<tokens, pos, context, entry, entry_context>>

\* line 79: the colon
parse_function_colon ==
    /\ Running("parse_function", "colon")
    /\ \E t \in Advance :
        /\ Advanced(t)
        /\ IF t.kind = "Colon"
           THEN Goto([Top EXCEPT !.pc = "type"])
           ELSE Return(Err(unexpected_token_err(t, "Colon", t.kind)))
    /\ UNCHANGED <<context, entry, entry_context>>

\* line 80: the return type
parse_function_type ==
    /\ Running("parse_function", "type")
    /\ \E t \in Advance :
        /\ Advanced(t)
        /\ LET ty == parse_type(t) IN
           IF ty.ok
           THEN Goto([Top EXCEPT !.r_type = ty.val, !.pc = "semicolon"])
           ELSE Return(ty)
    /\ UNCHANGED <<context, entry, entry_context>>

\* lines 81-83: the semicolon
parse_function_semicolon ==
    /\ Running("parse_function", "semicolon")
    /\ \E t \in Advance :
        /\ Advanced(t)
        /\ IF t.kind = "Semicolon"
           THEN Goto([Top EXCEPT !.pc = "begin"])
           ELSE Return(Err(unexpected_token_err(t, "Semicolon", t.kind)))
    /\ UNCHANGED <<context, entry, entry_context>>

\* lines 84-87: the body-open marker, the push of the parameters, the body
parse_function_begin ==
    /\ Running("parse_function", "begin")
    /\ \E t \in Advance :
        /\ Advanced(t)
        /\ context' = ScopeAtBegin(context, BodyScope(Top), t.kind)
        /\ IF t.kind = "Begin"
           THEN Call("block_ret", [fn |-> "parse_block", pc |-> "stmt", stmts |-> <<>>])
           ELSE Return(Err(unexpected_token_err(t, "Begin", t.kind)))
    /\ UNCHANGED <<entry, entry_context>>

\* lines 87-102: the body's result; on success the scope is popped, extended
\* and pushed back
parse_function_block_ret ==
    /\ Running("parse_function", "block_ret")
    /\ IF ~result.ok
       THEN /\ Return(result)
            /\ context' = ScopeAfterBodyError(context)
       ELSE /\ context' = ScopeAfterBody(context, Top.id, Top.r_type)
            /\ Return(Ok(FunctionDecl(Top.id, current.position, Top.args, result.val,
                                      Top.r_type)))
    /\ UNCHANGED <<tokens, pos, entry, entry_context>>

----------------------------------------------------------------------------
(* parse_return, function.rs 184-205 *)

\* line 185
ReturnFrame(t) == [fn |-> "parse_return", pc |-> "start", id |-> t]

\* lines 187-190 and 198-201
ReturnStmt(id, value) == [node |-> "ReturnStmt", token |-> id, value |-> value]

\* line 193: the cursor after go_back(), advance() having returned t
SteppedBack(t) == t.position - 1

\* ReturnTerminator without the check
ReturnTerminator_Any(k) == TRUE

\* line 196: what must follow the value
ReturnTerminator(k) == k = "Semicolon"

\* lines 186-194: a semicolon, or back one token and the expression
parse_return_start ==
    /\ Running("parse_return", "start")
    /\ \E t \in Advance :
        /\ tokens' = IF t.position > Len(tokens) THEN Append(tokens, t) ELSE tokens
        /\ IF t.kind = "Semicolon"
           THEN /\ pos' = t.position
                /\ Return(Ok(ReturnStmt(Top.id, None)))
           ELSE /\ pos' = SteppedBack(t)
                /\ Call("expr_ret", [fn |-> "parse_expression", pc |-> "atom", expr |-> None])
    /\ UNCHANGED <<context, entry, entry_context>>

\* lines 194-202: the expression's result, then the semicolon
parse_return_expr_ret ==
    /\ Running("parse_return", "expr_ret")
    /\ IF ~result.ok
       THEN Return(result)
       ELSE IF ReturnTerminator(current.kind)
            THEN Return(Ok(ReturnStmt(Top.id, Ok(result.val))))
            ELSE Return(Err(unexpected_token_err(current, "Semicolon", current.kind)))
    /\ UNCHANGED <<tokens, pos, context, entry, entry_context>>

----------------------------------------------------------------------------
(* Parser::parse_expression (the expression parser, not in src/): an       *)
(* identifier or a literal; it leaves the cursor on the token after it     *)

parse_expression_atom ==
    /\ Running("parse_expression", "atom")
    /\ \E t \in Advance :
        /\ Advanced(t)
        /\ IF t.kind \in {"Identifier", "Number"}
           THEN Goto([Top EXCEPT !.expr = [node |-> "Expr", token |-> t], !.pc = "next"])
           ELSE Return(Err(unexpected_token_err(t, "Expression", t.kind)))
    /\ UNCHANGED <<context, entry, entry_context>>

parse_expression_next ==
    /\ Running("parse_expression", "next")
    /\ \E t \in Advance :
        /\ Advanced(t)
        /\ Return(Ok(Top.expr))
    /\ UNCHANGED <<context, entry, entry_context>>

----------------------------------------------------------------------------
(* Parser::parse_block (the block parser, not in src/): statements up to   *)
(* the end marker; a statement is a call followed by a semicolon, a return *)
(* statement or a nested function declaration                              *)

BlockFrame == [fn |-> "parse_block", pc |-> "stmt", stmts |-> <<>>]

parse_block_stmt ==
    /\ Running("parse_block", "stmt")
    /\ \E t \in Advance :
        /\ Advanced(t)
        /\ CASE t.kind = "End" -> Return(Ok([node |-> "Block", stmts |-> Top.stmts]))
             [] t.kind = "Identifier" -> Call("call_ret", FunctionCallFrame(t))
             [] t.kind = "Return" -> Call("stmt_ret", ReturnFrame(t))
             [] t.kind = "Function" -> Call("stmt_ret", FunctionFrame(t.position))
             [] OTHER -> Return(Err(unexpected_token_err(t, "End", t.kind)))
    /\ UNCHANGED <<context, entry, entry_context>>

parse_block_call_ret ==
    /\ Running("parse_block", "call_ret")
    /\ IF ~result.ok
       THEN Return(result) /\ UNCHANGED <<tokens, pos>>
       ELSE \E t \in Advance :
               /\ Advanced(t)
               /\ IF t.kind = "Semicolon"
                  THEN Goto([Top EXCEPT !.stmts = Append(@, result.val), !.pc = "stmt"])
                  ELSE Return(Err(unexpected_token_err(t, "Semicolon", t.kind)))
    /\ UNCHANGED <<context, entry, entry_context>>

parse_block_stmt_ret ==
    /\ Running("parse_block", "stmt_ret")
    /\ IF ~result.ok
       THEN Return(result)
       ELSE Goto([Top EXCEPT !.stmts = Append(@, result.val), !.pc = "stmt"])
    /\ UNCHANGED <<tokens, pos, context, entry, entry_context>>

----------------------------------------------------------------------------
(* The driver: one call of one entry point on a fresh parser *)

Entries == {"function", "parameters", "call", "return"}

\* the token that is current when the entry point is called
EntryToken(e) ==
    CASE e = "function" -> Token("Function", "Function", 1)
      [] e = "parameters" -> Token("LeftParen", "LeftParen", 1)
      [] e = "call" -> Token("Identifier", "f", 1)
      [] e = "return" -> Token("Return", "Return", 1)
      [] e = "block" -> Token("Begin", "Begin", 1)

EntryFrame(e, t, ctx) ==
    CASE e = "function" -> [FunctionFrame(t.position) EXCEPT !.entry_ctx = ctx]
      [] e = "parameters" -> ParametersFrame(t.position)
      [] e = "call" -> FunctionCallFrame(t)
      [] e = "return" -> ReturnFrame(t)
      [] e = "block" -> BlockFrame

\* the scope stacks the driver calls the entry point with
EntryContexts(e) ==
    IF e \in {"call", "return"} THEN InitContexts
    ELSE { << <<Symbol("y", "VarParam", "String", 0)>>, <<Symbol("x", "Param", "Int", 0)>> >> }

Init ==
    /\ entry \in Entries
    /\ tokens = <<EntryToken(entry)>>
    /\ pos = 1
    /\ context \in EntryContexts(entry)
    /\ entry_context = context
    /\ stack = <<EntryFrame(entry, tokens[1], context)>>
    /\ result = None

Next ==
    \/ parse_single_param_first
    \/ parse_single_param_id
    \/ parse_single_param_colon
    \/ parse_single_param_type
    \/ parse_single_param_term
    \/ parse_function_name
    \/ parse_function_lparen
    \/ parse_function_params_ret
    \/ parse_function_colon
    \/ parse_function_type
    \/ parse_function_semicolon
    \/ parse_function_begin
    \/ parse_function_block_ret
    \/ parse_call_parameters_arg
    \/ parse_call_parameters_sep
    \/ parse_function_call_lparen
    \/ parse_function_call_params_ret
    \/ parse_return_start
    \/ parse_return_expr_ret
    \/ parse_expression_atom
    \/ parse_expression_next
    \/ parse_block_stmt
    \/ parse_block_call_ret
    \/ parse_block_stmt_ret

Spec == Init /\ [][Next]_vars

\* the driver calls the block parser: declarations side by side and nested
InitBlock ==
    /\ entry = "block"
    /\ tokens = <<EntryToken(entry)>>
    /\ pos = 1
    /\ context \in EntryContexts(entry)
    /\ entry_context = context
    /\ stack = <<EntryFrame(entry, tokens[1], context)>>
    /\ result = None

SpecBlock == InitBlock /\ [][Next]_vars

----------------------------------------------------------------------------
(* What the properties below speak about *)

\* the frames of the argument parser that are on the call stack
CallParameterFrames == {i \in 1..Len(stack) : stack[i].fn = "parse_call_parameters"}

\* the driver asked for a call, and its argument list has been opened
CallWithArguments ==
    entry = "call" /\ Len(tokens) >= 2 /\ tokens[2].kind = "LeftParen"

\* ... and parse_call_parameters has returned
ArgumentsReturned == CallWithArguments /\ CallParameterFrames = {}

\* Positions of the stream, after the parenthesis at `start`, that are argument
\* positions whatever the scope holds: the first one, and the one after an
\* identifier and a comma.
ArgPositions(start) ==
    {p \in (start + 1)..Len(tokens) :
        \/ p = start + 1
        \/ p - 2 > start /\ tokens[p - 1].kind = "Comma" /\ tokens[p - 2].kind = "Identifier"}

\* the kinds and lexemes of the tokens from position lo on start with these
StreamHas(lo, lexemes) ==
    /\ Len(tokens) >= lo + Len(lexemes) - 1
    /\ \A i \in 1..Len(lexemes) : tokens[lo + i - 1].lexeme = lexemes[i]

InSeq(x, sq) == \E i \in 1..Len(sq) : sq[i] = x

----------------------------------------------------------------------------
\* C1: parse_call_parameters terminates on every finite stream.  The stream
\* ends with end-of-input and every turn of the loop reads a token, so the
\* claim is that the loop has returned once end-of-input has been read inside
\* the argument list, wherever in the list that is: no turn of the loop
\* begins with the cursor already on end-of-input (spins counts those turns).
C1_ReturnsAtEndOfInput ==
    \A i \in CallParameterFrames : stack[i].spins = 0

----------------------------------------------------------------------------
\* the call f(x, y) with x in the active scope and y not in it
CallXY ==
    /\ entry = "call"
    /\ StreamHas(1, <<"f", "LeftParen", "x", "Comma", "y", "RightParen">>)
    /\ get(context[Len(context)], "x").ok
    /\ ~get(context[Len(context)], "y").ok

\* C2: for the call f(x, y), x declared in the active scope and y not,
\* parse_function_call returns exactly one diagnostic, "use of undeclared
\* variable" naming y: once the call's right parenthesis has been read the
\* argument parser has returned, and the error list is that one diagnostic.
C2_OneUndeclaredDiagnostic ==
    CallXY =>
        /\ CallParameterFrames = {}
        /\ result = Err(<<error_at_current(tokens[5], "use of undeclared variable", "y")>>)

----------------------------------------------------------------------------
\* the declaration starts  function f ( ) : the parameter list is empty
EmptyParameterList ==
    /\ entry = "function"
    /\ Len(tokens) >= 4
    /\ tokens[2].kind = "Identifier"
    /\ tokens[3].kind = "LeftParen"
    /\ tokens[4].kind = "RightParen"

\* C3: a declaration with an empty parameter list, f(): T; begin ... end, is
\* parsed successfully, to a FunctionDecl with return type T and no parameter:
\* parse_function does not return an error at the right parenthesis, and what
\* it returns for such a declaration is that node.
C3_EmptyParameterListParses ==
    EmptyParameterList /\ Done =>
        /\ result.ok
        /\ result.val.node = "FunctionDecl"
        /\ result.val.args = <<>>
        /\ result.val.r_type = tokens[6].kind

----------------------------------------------------------------------------
\* C4: when parse_function returns an error after it pushed the parameter
\* table (the body parser failed), the scope stack is the one it was entered
\* with.  For the declaration the driver asked for: on every error return the
\* scope stack equals the driver's.
C4_ScopePoppedOnError ==
    entry = "function" /\ Done /\ ~result.ok => context = entry_context

----------------------------------------------------------------------------
\* The grammar of a declaration's head, as an automaton over token kinds:
\* name ( [var] id : type {, [var] id : type} ) : type ; begin
HeadStep(st, k) ==
    CASE st = "name"      -> IF k = "Identifier" THEN "lparen" ELSE "bad"
      [] st = "lparen"    -> IF k = "LeftParen" THEN "param" ELSE "bad"
      [] st = "param"     -> IF k = "Var" THEN "id"
                             ELSE IF k = "Identifier" THEN "colon" ELSE "bad"
      [] st = "id"        -> IF k = "Identifier" THEN "colon" ELSE "bad"
      [] st = "colon"     -> IF k = "Colon" THEN "type" ELSE "bad"
      [] st = "type"      -> IF k \in TypeKinds THEN "term" ELSE "bad"
      [] st = "term"      -> IF k = "Comma" THEN "param"
                             ELSE IF k = "RightParen" THEN "closed" ELSE "bad"
      [] st = "closed"    -> IF k = "Colon" THEN "rtype" ELSE "bad"
      [] st = "rtype"     -> IF k \in TypeKinds THEN "semicolon" ELSE "bad"
      [] st = "semicolon" -> IF k = "Semicolon" THEN "begin" ELSE "bad"
      [] st = "begin"     -> IF k = "Begin" THEN "body" ELSE "bad"
      [] OTHER            -> st

\* the automaton's state after the tokens lo..hi, started in st
RECURSIVE HeadRun(_, _, _)
HeadRun(st, lo, hi) ==
    IF lo > hi THEN st ELSE HeadRun(HeadStep(st, tokens[lo].kind), lo + 1, hi)

\* where the head of the driver's construct stands after all tokens read
DriverHead ==
    HeadRun(IF entry = "function" THEN "name" ELSE "param", 2, Len(tokens))

----------------------------------------------------------------------------
\* the k-th smallest element of a set of positions
Nth(S, k) == CHOOSE i \in S : Cardinality({j \in S : j < i}) = k - 1

\* The symbol table a parameter list stands for, read off the stream: the
\* list opens at lo and closes at hi; a parameter's name is an identifier
\* followed by a colon, its type follows the colon, and it is a reference
\* parameter when the reference marker precedes the name.
DeclaredParameters(lo, hi) ==
    LET ids == {i \in (lo + 1)..(hi - 1) :
                    tokens[i].kind = "Identifier" /\ tokens[i + 1].kind = "Colon"}
        sym(i) == [name |-> tokens[i].lexeme,
                   s_type |-> IF tokens[i - 1].kind = "Var" THEN "VarParam" ELSE "Param",
                   r_type |-> tokens[i + 2].kind,
                   position |-> i]
    IN [k \in 1..Cardinality(ids) |-> sym(Nth(ids, k))]

\* the parameters of a list are one more than its commas
ParameterCount(lo, hi) ==
    Cardinality({i \in (lo + 1)..(hi - 1) : tokens[i].kind = "Comma"}) + 1

\* parse_parameters has just returned a table to the driver
ParametersReturnedToDriver == entry = "parameters" /\ Done /\ result.ok

\* parse_parameters has just returned a table to parse_function
ParametersReturnedToFunction == Running("parse_function", "params_ret") /\ result.ok

\* C5: for every valid non-empty parameter list parse_parameters returns a
\* table with exactly one symbol per parameter, in declaration order, each
\* with the parameter's name, the position of its identifier, its parsed type
\* and the kind VarParam if the reference marker precedes it, Param if not;
\* and a list that follows the grammar is not rejected.
C5_ParameterTable ==
    /\ ParametersReturnedToDriver =>
          /\ result.val = DeclaredParameters(1, pos)
          /\ Len(result.val) = ParameterCount(1, pos)
    /\ ParametersReturnedToFunction =>
          /\ result.val = DeclaredParameters(Top.start + 2, pos)
          /\ Len(result.val) = ParameterCount(Top.start + 2, pos)
    /\ entry = "parameters" /\ Done /\ DriverHead = "closed" => result.ok

\* a list of a reference parameter and a value parameter has been parsed
C5_Witness ==
    /\ ParametersReturnedToDriver
    /\ Len(result.val) = 2
    /\ result.val[1].s_type = "VarParam"
    /\ result.val[2].s_type = "Param"
    /\ result.val[1].r_type # result.val[2].r_type
    /\ result.val[1].name # result.val[2].name

----------------------------------------------------------------------------
\* the diagnostic for the token at position p that is not an identifier
UnexpectedTokenAt(p) == error_at_current(tokens[p], "Unexpected token", tokens[p].kind)

\* the argument positions of a list that hold a token that is no identifier
NonIdentifierArguments(start) ==
    {p \in ArgPositions(start) : tokens[p].kind # "Identifier"}

\* C6: a call with a token that is not an identifier at an argument position
\* (f(1)) never returns a FunctionCallStmt; the "Unexpected token" diagnostic
\* for that token is recorded when the token is read, and the error list that
\* parse_call_parameters and parse_function_call return contains it.
C6_NonIdentifierArgument ==
    /\ \A i \in CallParameterFrames : \A p \in NonIdentifierArguments(stack[i].start) :
          InSeq(UnexpectedTokenAt(p), stack[i].errors)
    /\ ArgumentsReturned =>
          \A p \in NonIdentifierArguments(2) :
              ~result.ok /\ InSeq(UnexpectedTokenAt(p), result.val)

\* the call f(1 ...) has returned to the driver
C6_Witness ==
    /\ ArgumentsReturned
    /\ Done
    /\ tokens[3].kind = "Number"
    /\ ~result.ok
    /\ InSeq(UnexpectedTokenAt(3), result.val)

----------------------------------------------------------------------------
\* the diagnostic for the identifier at position p that is not declared
UndeclaredAt(p) ==
    error_at_current(tokens[p], "use of undeclared variable", tokens[p].lexeme)

\* the argument positions of a list that hold an identifier
IdentifierArguments(start) ==
    {p \in ArgPositions(start) : tokens[p].kind = "Identifier"}

\* the table at the top of the scope stack
ActiveScope == context[Len(context)]

\* the name is declared in a table below the top one
DeclaredBelow(name) == \E d \in 1..(Len(context) - 1) : get(context[d], name).ok

\* C7: an argument is looked up in the table at the top of the scope stack
\* only.  An argument not declared there gets the "use of undeclared variable"
\* diagnostic, also when a table below declares it; an argument declared
\* there resolves to the top table's symbol, whatever the tables below hold.
C7_LookupInActiveScopeOnly ==
    /\ \A i \in CallParameterFrames : \A p \in IdentifierArguments(stack[i].start) :
          IF get(ActiveScope, tokens[p].lexeme).ok
          THEN /\ ~InSeq(UndeclaredAt(p), stack[i].errors)
               /\ InSeq(get(ActiveScope, tokens[p].lexeme).val, stack[i].params)
          ELSE InSeq(UndeclaredAt(p), stack[i].errors)
    /\ ArgumentsReturned =>
          \A p \in IdentifierArguments(2) :
              IF get(ActiveScope, tokens[p].lexeme).ok
              THEN ~result.ok => ~InSeq(UndeclaredAt(p), result.val)
              ELSE ~result.ok /\ InSeq(UndeclaredAt(p), result.val)

\* a call whose first argument is declared only below the top table has
\* returned to the driver
C7_Witness ==
    /\ ArgumentsReturned
    /\ Done
    /\ tokens[3].kind = "Identifier"
    /\ DeclaredBelow(tokens[3].lexeme)
    /\ ~get(ActiveScope, tokens[3].lexeme).ok
    /\ InSeq(UndeclaredAt(3), result.val)

----------------------------------------------------------------------------
\* the value a return statement wraps when its expression is the one token t
ExpressionOf(t) == [node |-> "Expr", token |-> t]

\* that token can be an expression
IsExpression(t) == t.kind \in {"Identifier", "Number"}

\* the expression parser is about to start, called by parse_return
ExpressionOfReturnStarts ==
    /\ Running("parse_expression", "atom")
    /\ Len(stack) >= 2
    /\ stack[Len(stack) - 1].fn = "parse_return"

\* C8: parse_return, entered on the return token: if the next token is a
\* semicolon it yields a ReturnStmt without value; otherwise it steps back
\* exactly one token (the cursor is on the return token again when the
\* expression parser starts) and yields a ReturnStmt wrapping the expression
\* only if the expression parser succeeded and left the cursor on a
\* semicolon; if not, it returns a syntax error and no ReturnStmt.
C8_ReturnStatement ==
    /\ ExpressionOfReturnStarts =>
          /\ current = stack[Len(stack) - 1].id
          /\ Len(tokens) = pos + 1
    /\ entry = "return" /\ Done =>
          IF tokens[2].kind = "Semicolon"
          THEN result = Ok(ReturnStmt(tokens[1], None)) /\ pos = 2
          ELSE IF IsExpression(tokens[2]) /\ tokens[3].kind = "Semicolon"
          THEN result = Ok(ReturnStmt(tokens[1], Ok(ExpressionOf(tokens[2])))) /\ pos = 3
          ELSE ~result.ok /\ Len(result.val) = 1

\* return x ; has been parsed to a ReturnStmt with a value
C8_Witness ==
    /\ entry = "return"
    /\ Done
    /\ result.ok
    /\ result.val.node = "ReturnStmt"
    /\ result.val.value.ok
    /\ result.val.value.val.token.kind = "Identifier"

----------------------------------------------------------------------------
\* the token read last is the first one the grammar does not allow
FirstUnmetIsLast(st0, lo) ==
    /\ HeadRun(st0, lo, Len(tokens)) = "bad"
    /\ HeadRun(st0, lo, Len(tokens) - 1) # "bad"

\* the result is a single error, at the token read last, and the cursor is on it
SingleErrorAtLastToken ==
    /\ ~result.ok
    /\ Len(result.val) = 1
    /\ result.val[1].position = Len(tokens)
    /\ pos = Len(tokens)

\* C9: parameter-list and function-declaration parsing are fail-fast.  The
\* first token that does not meet the expectation of the head's grammar
\* (function name, parenthesis, a malformed parameter, colon, return type,
\* semicolon, body-open marker) ends the construct: it is the last token
\* read, and the error list returned has exactly one element, for that token.
\* Until then no error is returned.
C9_FailFast ==
    /\ \A i \in 1..Len(stack) :
          /\ stack[i].fn = "parse_parameters" =>
                HeadRun("param", stack[i].start + 1, Len(tokens)) = stack[i].pc
          /\ stack[i].fn = "parse_function" /\
             HeadRun("name", stack[i].start + 1, Len(tokens)) = "bad" =>
                /\ i = Len(stack)
                /\ stack[i].pc = "params_ret"
                /\ FirstUnmetIsLast("name", stack[i].start + 1)
                /\ SingleErrorAtLastToken
    /\ entry \in {"function", "parameters"} /\ Done =>
          IF DriverHead = "bad"
          THEN /\ FirstUnmetIsLast(IF entry = "function" THEN "name" ELSE "param", 2)
               /\ SingleErrorAtLastToken
          ELSE DriverHead = (IF entry = "function" THEN "body" ELSE "closed")

\* a declaration whose second parameter is malformed has returned its error
C9_Witness ==
    /\ entry = "function"
    /\ Done
    /\ SingleErrorAtLastToken
    /\ HeadRun("name", 2, Len(tokens) - 1) \in {"param", "id", "colon", "type", "term"}
    /\ Cardinality({i \in 1..Len(tokens) : tokens[i].kind = "Comma"}) = 1

----------------------------------------------------------------------------
\* parse_function is about to return a FunctionDecl: its body has been parsed
FunctionSucceeds == Running("parse_function", "block_ret") /\ result.ok

\* C11: on every successful parse_function, for a function f with parameter
\* table P, the table popped after the body is P (the table at the top of the
\* scope stack when the body parser has returned is the one pushed before the
\* body), and the top of the scope stack on return is P followed by one
\* symbol for f: kind Function, f's return type, f's name and the position of
\* f's name token.  Also when the body holds nested declarations.
C11_PopsOwnTable ==
    [][FunctionSucceeds =>
          /\ context[Len(context)] = Top.args
          /\ context'[Len(context')] =
                Append(Top.args, Symbol(Top.id.lexeme, "Function", Top.r_type,
                                        Top.id.position))]_vars

----------------------------------------------------------------------------
\* the frames of parse_function whose body is being parsed, or has just been
\* parsed (line 87)
FunctionsInBody ==
    {i \in 1..Len(stack) : stack[i].fn = "parse_function" /\ stack[i].pc = "block_ret"}

\* the symbol of the function of frame fr
SelfSymbol(fr) == Symbol(fr.id.lexeme, "Function", fr.r_type, fr.id.position)

\* the parameters of that function that have the name n
ParametersNamed(fr, n) == {k \in 1..Len(fr.args) : fr.args[k].name = n}

\* C12: while the body of a function f is parsed, f's own symbol is not in
\* the active scope (it is added only after the body parser has returned).
\* So in a call inside the body an argument that is f's name gets the "use of
\* undeclared variable" diagnostic and resolves to nothing, unless a
\* parameter of f has that name: then it resolves to the parameter.
C12_SelfNotInBodyScope ==
    \A i \in FunctionsInBody :
        /\ ~InSeq(SelfSymbol(stack[i]), ActiveScope)
        /\ \A j \in CallParameterFrames : j > i =>
              \A p \in IdentifierArguments(stack[j].start) :
                  tokens[p].lexeme = stack[i].id.lexeme =>
                      IF ParametersNamed(stack[i], tokens[p].lexeme) = {}
                      THEN /\ InSeq(UndeclaredAt(p), stack[j].errors)
                           /\ \A k \in 1..Len(stack[j].params) :
                                 stack[j].params[k].name # tokens[p].lexeme
                      ELSE /\ ~InSeq(UndeclaredAt(p), stack[j].errors)
                           /\ \E k \in ParametersNamed(stack[i], tokens[p].lexeme) :
                                 InSeq(stack[i].args[k], stack[j].params)

\* in the body of f, which has no parameter named f, the call f(f ... has
\* recorded that f is undeclared
C12_Witness ==
    /\ entry = "function"
    /\ FunctionsInBody = {1}
    /\ ParametersNamed(stack[1], stack[1].id.lexeme) = {}
    /\ \E j \in CallParameterFrames :
          /\ Len(tokens) > stack[j].start
          /\ tokens[stack[j].start + 1].kind = "Identifier"
          /\ tokens[stack[j].start + 1].lexeme = stack[1].id.lexeme
          /\ InSeq(UndeclaredAt(stack[j].start + 1), stack[j].errors)

----------------------------------------------------------------------------
\* What an argument list stands for, read off the stream from position p to
\* position hi.  A token is read as an argument ("arg") or, after an argument
\* that the active scope declares, as a separator ("sep").

\* how the token after the one at p is read
ReadNext(p, as) ==
    IF as = "arg"
    THEN IF tokens[p].kind = "Identifier" /\ get(ActiveScope, tokens[p].lexeme).ok
         THEN "sep" ELSE "arg"
    ELSE "arg"

\* the diagnostic the token at p calls for, if any
DiagnosticAt(p, as) ==
    IF as = "arg"
    THEN IF tokens[p].kind # "Identifier" THEN <<UnexpectedTokenAt(p)>>
         ELSE IF get(ActiveScope, tokens[p].lexeme).ok THEN <<>>
         ELSE <<UndeclaredAt(p)>>
    ELSE IF tokens[p].kind \in {"Comma", "RightParen"} THEN <<>>
    ELSE IF tokens[p].kind = "Eof"
         THEN <<error_at_current(tokens[p],
                                 "Found EOF wile parsing call parameters, missing a )?", "")>>
    ELSE <<UnexpectedTokenAt(p)>>

\* the symbol the token at p resolves to, if any
ArgumentAt(p, as) ==
    IF as = "arg" /\ tokens[p].kind = "Identifier" /\ get(ActiveScope, tokens[p].lexeme).ok
    THEN <<get(ActiveScope, tokens[p].lexeme).val>>
    ELSE <<>>

\* the diagnostics of the tokens p..hi, in the order of the tokens
RECURSIVE Diagnostics(_, _, _)
Diagnostics(p, hi, as) ==
    IF p > hi THEN <<>>
    ELSE DiagnosticAt(p, as) \o Diagnostics(p + 1, hi, ReadNext(p, as))

\* the symbols the tokens p..hi resolve to, in the order of the tokens
RECURSIVE Arguments(_, _, _)
Arguments(p, hi, as) ==
    IF p > hi THEN <<>>
    ELSE ArgumentAt(p, as) \o Arguments(p + 1, hi, ReadNext(p, as))

\* parse_call_parameters has just returned to parse_function_call
CallParametersReturned == Running("parse_function_call", "params_ret")

\* the first token of the argument list that has just been scanned
FirstArgument == Top.f_name.position + 2

\* C13: parse_call_parameters returns an argument table if and only if the
\* scan recorded no diagnostic; otherwise it returns every diagnostic of the
\* scan, in the order of the offending tokens, and none of the arguments that
\* were resolved.
C13_TableOrAllDiagnostics ==
    CallParametersReturned =>
        LET errors == Diagnostics(FirstArgument, pos, "arg") IN
        /\ result.ok <=> errors = <<>>
        /\ ~result.ok => result.val = errors
        /\ result.ok => result.val = Arguments(FirstArgument, pos, "arg")

\* a scan that resolved an argument and recorded two diagnostics has returned
C13_Witness ==
    /\ CallParametersReturned
    /\ ~result.ok
    /\ Len(result.val) = 2
    /\ result.val[1].msg # result.val[2].msg
    /\ Arguments(FirstArgument, pos, "arg") # <<>>

----------------------------------------------------------------------------
\* parse_function_call has just returned a FunctionCallStmt, to the driver or
\* to the block parser
CallSucceeded ==
    /\ result.ok
    /\ \/ entry = "call" /\ Done
       \/ Running("parse_block", "call_ret")

\* the target of the call that has just been parsed: the token before the
\* last left parenthesis
CallTarget ==
    CHOOSE q \in 1..pos :
        /\ tokens[q + 1].kind = "LeftParen"
        /\ \A r \in (q + 1)..(pos - 1) : tokens[r + 1].kind # "LeftParen"

\* the positions of the argument identifiers of that call
CallIdentifiers ==
    {p \in (CallTarget + 2)..(pos - 1) : tokens[p].kind = "Identifier"}

\* C14: on a successful call parse the FunctionCallStmt carries the target
\* token's name and position and an argument table with exactly one entry
\* per argument identifier, in call order; each entry is the symbol record of
\* that name in the active scope (its kind, type and declaration position),
\* not a symbol with the position of the token at the call site.
C14_CallStatement ==
    CallSucceeded =>
        /\ result.val.node = "FunctionCallStmt"
        /\ result.val.target = tokens[CallTarget].lexeme
        /\ result.val.position = CallTarget
        /\ Len(result.val.args) = Cardinality(CallIdentifiers)
        /\ \A k \in 1..Len(result.val.args) :
              LET p == Nth(CallIdentifiers, k) IN
              /\ result.val.args[k] = get(ActiveScope, tokens[p].lexeme).val
              /\ result.val.args[k].position # p

\* the call f(a, b) with two different arguments has been parsed for the driver
C14_Witness ==
    /\ entry = "call"
    /\ Done
    /\ result.ok
    /\ Len(result.val.args) = 2
    /\ result.val.args[1] # result.val.args[2]

----------------------------------------------------------------------------
\* the frames of parse_function that have not reached the body (lines 72-84)
FunctionsInHead ==
    {i \in 1..Len(stack) : stack[i].fn = "parse_function" /\ stack[i].pc # "block_ret"}

\* the declaration the driver asked for has failed before its body
FailedInHead == entry = "function" /\ Done /\ ~result.ok /\ DriverHead = "bad"

\* C15: if parse_function fails at a step before the body (name, left
\* parenthesis, parameter list, right parenthesis, colon, return type,
\* semicolon, body-open marker), the scope stack is as it was on entry: until
\* the body is reached no table is pushed, popped or modified, and on such a
\* failure the stack returned to the driver is the driver's.
C15_HeadLeavesScope ==
    /\ \A i \in FunctionsInHead : context = stack[i].entry_ctx
    /\ FailedInHead => context = entry_context

\* a declaration with a parameter list has failed at the body-open marker
C15_Witness ==
    /\ FailedInHead
    /\ HeadRun("name", 2, Len(tokens) - 1) = "begin"
    /\ context = entry_context

----------------------------------------------------------------------------
\* the rules that only read the scope stack, and the expression parser that
\* parse_return calls
ScopeReaders ==
    {"parse_parameters", "parse_call_parameters", "parse_function_call", "parse_return",
     "parse_expression"}

\* C16: parse_parameters, parse_call_parameters, parse_function_call and
\* parse_return never change the scope stack, whether they succeed or fail:
\* no step of theirs (a lookup, a resolved or rejected argument, a return)
\* changes the depth of the stack or the contents of a table, so the stack
\* after the call is the stack before it.
C16_ScopeUnchanged ==
    [][stack # <<>> /\ Top.fn \in ScopeReaders => context' = context]_vars

\* a call with a resolved argument has returned to the driver, which called
\* it with a scope stack of two tables
C16_Witness ==
    /\ entry = "call"
    /\ Done
    /\ result.ok
    /\ Len(entry_context) = 2
    /\ context = entry_context

----------------------------------------------------------------------------
\* the error of a closing-parenthesis check that failed at token t
ExpectedRightParen(e) == e.msg = "expected" /\ e.arg[1] = "RightParen"

\* parse_function_call has just returned an error, to the driver or to the
\* block parser
CallFailed ==
    /\ ~result.ok
    /\ \/ entry = "call" /\ Done
       \/ Running("parse_block", "call_ret")

\* C17: whenever parse_call_parameters returns an argument table the current
\* token is the right parenthesis that ended the list, so the check for the
\* closing parenthesis in parse_function_call never fails: a call fails only
\* with the error for a missing left parenthesis or with the diagnostics of
\* parse_call_parameters.
C17_ClosingParenthesisHolds ==
    /\ CallParametersReturned /\ result.ok =>
          current.kind = "RightParen" /\ pos = Len(tokens)
    /\ CallFailed => \A k \in 1..Len(result.val) : ~ExpectedRightParen(result.val[k])
    /\ entry = "call" /\ CallFailed =>
          IF tokens[2].kind = "LeftParen"
          THEN result.val = Diagnostics(3, pos, "arg")
          ELSE result.val = <<error_at_current(tokens[2], "expected",
                                               <<"LeftParen", tokens[2].kind>>)>>

\* an argument table of two symbols has been returned to parse_function_call
C17_Witness ==
    /\ CallParametersReturned
    /\ result.ok
    /\ Len(result.val) = 2
    /\ current.kind = "RightParen"

----------------------------------------------------------------------------
\* the argument list that starts after the parenthesis at `start` is empty
EmptyArgumentList(start) ==
    Len(tokens) > start /\ tokens[start + 1].kind = "RightParen"

\* C18: a call with an empty argument list, f(), is never accepted.  The
\* right parenthesis read at the first argument position is recorded as an
\* "Unexpected token" diagnostic, a call that starts f() returns that
\* diagnostic if it returns, and every argument table that
\* parse_call_parameters returns holds at least one symbol.
C18_EmptyArgumentListRejected ==
    /\ \A j \in CallParameterFrames :
          EmptyArgumentList(stack[j].start) =>
              stack[j].errors # <<>> /\
              stack[j].errors[1] = UnexpectedTokenAt(stack[j].start + 1)
    /\ ArgumentsReturned /\ EmptyArgumentList(2) =>
          ~result.ok /\ result.val[1] = UnexpectedTokenAt(3)
    /\ CallParametersReturned /\ result.ok => Len(result.val) >= 1

\* a call that starts f() has returned to the driver
C18_Witness ==
    /\ ArgumentsReturned
    /\ Done
    /\ EmptyArgumentList(2)
    /\ ~result.ok
    /\ result.val[1] = UnexpectedTokenAt(3)

----------------------------------------------------------------------------
\* the frames of parse_function on the call stack
FunctionFrames == {i \in 1..Len(stack) : stack[i].fn = "parse_function"}

\* the body parser left the scope stack as deep as it found it
BodyKeptDepth == Len(context) = Len(Top.entry_ctx) + 1

\* the declaration d has a declaration in its body
HasNested(d) ==
    \E k \in 1..Len(d.block.stmts) : d.block.stmts[k].node = "FunctionDecl"

\* The driver's block stands between two statements, inside a call or a
\* return statement of its own, or has returned its node: no declaration of
\* it is being parsed.
BetweenSiblings ==
    /\ entry = "block"
    /\ FunctionFrames = {}
    /\ IF Done THEN result.ok ELSE ~(Len(stack) = 1 /\ stack[1].pc = "stmt_ret")

\* the statements of the driver's block parsed so far
SiblingStmts == IF Done THEN result.val.stmts ELSE stack[1].stmts

\* the sibling declarations among them
Siblings == {k \in 1..Len(SiblingStmts) : SiblingStmts[k].node = "FunctionDecl"}

\* the declaration parsed last
LastSibling == SiblingStmts[CHOOSE k \in Siblings : \A l \in Siblings : l <= k]

\* the table is the parameters of d followed by one symbol for d itself
DeclarationTable(table, d) ==
    /\ Len(table) = Len(d.args) + 1
    /\ SubSeq(table, 1, Len(d.args)) = d.args
    /\ table[Len(table)].name = d.name
    /\ table[Len(table)].s_type = "Function"
    /\ table[Len(table)].r_type = d.r_type

\* the stack is never shallower than on entry; between sibling declarations
\* whose bodies hold no declaration it holds one table more per declaration,
\* and the active scope is the table of the declaration parsed last
ScopeDepthOfSiblings ==
    /\ Len(context) >= Len(entry_context)
    /\ \A i \in FunctionFrames : Len(context) >= Len(stack[i].entry_ctx)
    /\ BetweenSiblings /\ (\A k \in Siblings : ~HasNested(SiblingStmts[k])) =>
          /\ Len(context) = Len(entry_context) + Cardinality(Siblings)
          /\ SubSeq(context, 1, Len(entry_context)) = entry_context
          /\ Siblings # {} =>
                /\ DeclarationTable(ActiveScope, LastSibling)
                /\ ActiveScope # entry_context[Len(entry_context)]

\* a successful parse_function whose body kept the depth returns with the
\* stack it was entered with and, on top of it, its parameters and its symbol
OneTableDeeper ==
    FunctionSucceeds /\ BodyKeptDepth =>
        context' = Append(Top.entry_ctx, Append(Top.args, SelfSymbol(Top)))

\* C19: provided the body parser leaves the depth of the scope stack as it
\* found it, every successful parse_function leaves the stack exactly one
\* table deeper than on entry, and nothing ever leaves it shallower than on
\* entry; after n successful sibling declarations the stack holds n more
\* tables than initially, and the active scope for what follows a
\* declaration is that declaration's table (its parameters and its own
\* symbol), not the scope that was active before the declaration.
C19_OneTablePerDeclaration ==
    /\ []ScopeDepthOfSiblings
    /\ [][OneTableDeeper]_vars

\* two sibling declarations have been parsed and the block stands after them
C19_Witness ==
    /\ BetweenSiblings
    /\ ~Done
    /\ Cardinality(Siblings) = 2
    /\ \A k \in Siblings : ~HasNested(SiblingStmts[k])
    /\ Len(context) = Len(entry_context) + 2

----------------------------------------------------------------------------
\* the name is declared in some table of the scope stack
DeclaredAnywhere(name) == \E d \in 1..Len(context) : get(context[d], name).ok

\* The statement that has just been parsed in a body is  t ( a )  with a
\* declared in the active scope: a call of any target t, the enclosing
\* function's own name included.
BodyCallOfDeclaredArgument ==
    /\ Running("parse_block", "call_ret")
    /\ pos >= 5
    /\ tokens[pos].kind = "RightParen"
    /\ tokens[pos - 1].kind = "Identifier"
    /\ get(ActiveScope, tokens[pos - 1].lexeme).ok
    /\ tokens[pos - 2].kind = "LeftParen"
    /\ tokens[pos - 3].kind = "Identifier"
    /\ tokens[pos - 4].kind \in {"Begin", "Semicolon", "End"}

\* C20: parse_function_call never looks the call target up.  Whether a call
\* succeeds depends only on the tokens after the target (the left
\* parenthesis) and on the resolution of the argument identifiers: a call of
\* a target that no table declares is parsed successfully, and so is the
\* self-recursive call f(a) in the body of f, a being a parameter of f.
C20_TargetNotLookedUp ==
    /\ entry = "call" /\ Done =>
          (result.ok <=> /\ tokens[2].kind = "LeftParen"
                         /\ Len(tokens) >= 3
                         /\ Diagnostics(3, pos, "arg") = <<>>)
    /\ BodyCallOfDeclaredArgument =>
          /\ result.ok
          /\ result.val.target = tokens[pos - 3].lexeme

\* in the body of f, whose name no table declares, the call f(a) with a
\* parameter a of f has been parsed successfully
C20_Witness ==
    /\ entry = "function"
    /\ BodyCallOfDeclaredArgument
    /\ FunctionsInBody = {1}
    /\ tokens[pos - 3].lexeme = stack[1].id.lexeme
    /\ ~DeclaredAnywhere(tokens[pos - 3].lexeme)
    /\ ParametersNamed(stack[1], tokens[pos - 1].lexeme) # {}
    /\ result.ok

=============================================================================
